---- MODULE Spec2Model ----
(***************************************************************************)
(* Model of github-contribution-scraper (getGitHubContributions.js,        *)
(* throttledPromiseAll.js, dateUtils.js).                                  *)
(*                                                                         *)
(* Spec       : one run of the program (run(), getGitHubData(), the        *)
(*              Octokit throttle handlers, throttledPromiseAll()) as a     *)
(*              state machine over the JavaScript event loop.              *)
(* SpecBucket : the date arithmetic and the bucketing step of              *)
(*              getGitHubData() on bounded inputs.                         *)
(* FairSpec   : Spec with a fair event loop and service.                   *)
(* SpecCommits, SpecRanges, SpecEnum, SpecNotes, SpecCall, SpecMerge :     *)
(*              the commit filter, the date ranges of a month,             *)
(*              enumerateDaysBetweenDates, parseTenAMData,                 *)
(*              throttledPromiseAll and the merge and rendering loops of   *)
(*              run(), each on bounded inputs.                             *)
(***************************************************************************)
EXTENDS Integers, Sequences, FiniteSets, TLC

(***************************************************************************)
(* Bounds                                                                  *)
(***************************************************************************)
\* throttling signals (rate-limit or abuse) the server sends to one request
MaxSignalsPerRequest == 7
\* requests of one run that the server throttles
MaxThrottled == 1
\* results of a search query that lead to one enrichment request each
MaxItems == 1
\* date ranges fetched in note-file (tenAM) mode
MaxRanges == 2
\* instants are counted in ticks; a calendar day has TicksPerDay of them
TicksPerDay == 4
\* argv dates are the calendar days 1..MaxDay
MaxDay == 2
\* UTC offsets of the machine and of argv.timezone, in ticks
MaxOffset == 1
\* entities (issues, reviews, comments, commits) returned to one call
MaxEntities == 2
\* commits returned by the commit search
MaxCommits == 2
\* pull requests associated with one commit
MaxAssociated == 2
\* days of one month that have a note in the note file
MaxNotes == 2
\* lines of the note file
MaxLines == 4
\* promises handed to one call of throttledPromiseAll
MaxPromises == 3
\* the values a promise resolves with are 1..MaxResult
MaxResult == 2
\* the note file has notes for months 1..MaxMonth
MaxMonth == 3
\* months of the note file that have notes
MaxNotedMonths == 2

(***************************************************************************)
(* State of a run                                                          *)
(***************************************************************************)
VARIABLES
    argv,                 \* what the checks of yargs find in the command line
    mode,                 \* "date" (--date or --startDate/--endDate) or "tenAM"
    unhandledRejections,  \* what the Node runtime does with an unhandled rejection
    pc,                   \* position of run()
    rangesLeft,           \* tenAM mode: date ranges not fetched yet
    searchThrottle,       \* the module-level delay
    req,                  \* the requests sent through octokit
    stage,                \* position of the promise chain of getGitHubData()
    tpa,                  \* the running call of throttledPromiseAll()
    throttled,            \* requests that have received a throttling signal
    events,               \* the user's 'reviewed' event of each timeline received
    reviews,              \* the reviews with their prTitle, once mapped
    outputFile,           \* what writeFileSync has put in argv.outputFile
    exitCode              \* -1 while the process runs, else its exit status

(***************************************************************************)
(* State of the aggregation step                                           *)
(***************************************************************************)
VARIABLES
    machineOffset,        \* UTC offset of the machine's local time zone
    timezone,             \* UTC offset of argv.timezone
    argvStartDate,        \* argv.startDate ?? argv.date, a calendar day
    argvEndDate,          \* argv.endDate ?? argv.date, a calendar day
    dateRange,            \* result of adjustDateAndTimezoneForGitHub
    entities,             \* issues, reviews, comments, commits of the call
    fullDataSet,          \* the DayBuckets: keys in insertion order, and data
    bpc                   \* position of the aggregation

(***************************************************************************)
(* State of the commit filter                                              *)
(***************************************************************************)
VARIABLES
    foundCommits,         \* the commits of the search, each with the pull
                          \* requests listPullRequestsAssociatedWithCommit returned
    finalCommits,         \* the commits of the final data set
    cpc                   \* position of the commit filter

commitVars == <<foundCommits, finalCommits, cpc>>

(***************************************************************************)
(* State of the computation of the date ranges of a month (note-file mode) *)
(***************************************************************************)
VARIABLES
    monthDays,            \* daysInMonth() of currentMonth of currentYear
    firstWeekday,         \* day() of the first of the month, 0 is Sunday
    monthTenAMs,          \* the days of the month that have a note
    dateRanges,           \* the ranges computed: a sequence of sequences of days
    rpc                   \* position of the computation

rangeVars == <<monthDays, firstWeekday, monthTenAMs, dateRanges, rpc>>

(***************************************************************************)
(* State of a call of DateUtils.enumerateDaysBetweenDates                  *)
(***************************************************************************)
VARIABLES
    enumZone,             \* UTC offset of the machine's local time zone
    enumStart,            \* startDate: an instant, or a string moment cannot parse
    enumEnd,              \* endDate, likewise
    enumDates,            \* the array returned
    epc                   \* "call", then "returned" or "thrown"

enumVars == <<enumZone, enumStart, enumEnd, enumDates, epc>>

(***************************************************************************)
(* State of parseTenAMData                                                 *)
(***************************************************************************)
VARIABLES
    rawTenAMData,         \* the note file: a sequence of lines
    annualData,           \* the text of each year
    monthlyData,          \* the text of each month of each year
    tenAMData,            \* the entries returned: year, month, date key, text
    ppc                   \* "read", "years", "months", then "parsed" or "thrown"

noteVars == <<rawTenAMData, annualData, monthlyData, tenAMData, ppc>>

(***************************************************************************)
(* State of a call of throttledPromiseAll on promises of any kind          *)
(***************************************************************************)
VARIABLES
    promises,             \* the array handed to the call: state and value of each
    settled,              \* the promises in the order in which they settled
    call                  \* the running call, like tpa

callVars == <<promises, settled, call>>

(***************************************************************************)
(* State of the merge and rendering loops of run() in note-file mode       *)
(***************************************************************************)
VARIABLES
    parsed,               \* what parseTenAMData returned, as it was returned
    mergedData,           \* mergedData, the same object as tenAMData
    plan,                 \* the date ranges the loops have yet to fetch
    fetched,              \* the DayBuckets the calls of getGitHubData returned
    activity,             \* the days fetched have GitHub activity, or none has
    runMachine,           \* UTC offset of the machine's local time zone
    runZone,              \* UTC offset of argv.timezone
    output,               \* the day entries appended to output, in order
    mpc                   \* "fetch", then "written"

mergeVars == <<parsed, mergedData, plan, fetched, activity, runMachine, runZone,
               output, mpc>>

bucketVars == <<machineOffset, timezone, argvStartDate, argvEndDate, dateRange,
                entities, fullDataSet, bpc>>

reviewVars == <<events, reviews>>

runVars == <<argv, mode, unhandledRejections, pc, rangesLeft, searchThrottle, req,
             stage, tpa, throttled, reviewVars, outputFile, exitCode>>

\* the state of the steps that are looked at on bounded inputs
stepVars == <<bucketVars, commitVars, rangeVars, enumVars, noteVars, callVars,
              mergeVars>>

\* what a step leaves alone: the run and the other steps
besideBucket == <<runVars, commitVars, rangeVars, enumVars, noteVars, callVars,
                 mergeVars>>

besideCommits == <<runVars, bucketVars, rangeVars, enumVars, noteVars, callVars,
                 mergeVars>>

besideRanges == <<runVars, bucketVars, commitVars, enumVars, noteVars, callVars,
                 mergeVars>>

besideEnum == <<runVars, bucketVars, commitVars, rangeVars, noteVars, callVars,
                 mergeVars>>

besideNotes == <<runVars, bucketVars, commitVars, rangeVars, enumVars, callVars,
                 mergeVars>>

besideCall == <<runVars, bucketVars, commitVars, rangeVars, enumVars, noteVars,
               mergeVars>>

besideMerge == <<runVars, bucketVars, commitVars, rangeVars, enumVars, noteVars,
                callVars>>

vars == <<runVars, stepVars>>

(***************************************************************************)
(* Requests                                                                *)
(***************************************************************************)
UserReq == <<"user", 1>>

\* the four search queries handed to throttledPromiseAll, in array order
QueryReqs == {"q"} \X (1..4)

CommentReqs == {"c"} \X (1..MaxItems)

TimelineReqs == {"t"} \X (1..MaxItems)

AssociatedPRReqs == {"p"} \X (1..MaxItems)

DataReqs == QueryReqs \cup CommentReqs \cup TimelineReqs \cup AssociatedPRReqs

ReqIds == {UserReq} \cup DataReqs

Query(i) == <<"q", i>>

IdleReq == [st |-> "idle", retryCount |-> 0, abuseRetries |-> 0, cause |-> "none"]

PendingReq == [st |-> "pending", retryCount |-> 0, abuseRetries |-> 0, cause |-> "none"]

\* the server may send one more throttling signal to the request
MayThrottle(r) ==
    /\ req[r].retryCount < MaxSignalsPerRequest
    /\ req[r].retryCount > 0 \/ throttled < MaxThrottled

\* a request the server answers for good keeps no retry state
Finished(st, cause) == [st |-> st, retryCount |-> 0, abuseRetries |-> 0, cause |-> cause]

(***************************************************************************)
(* The throttle handlers                                                   *)
(***************************************************************************)
onRateLimitRetries_Always(retryCount) == TRUE

\* onRateLimit: if (options.request.retryCount <= 5) ... return true
onRateLimitRetries(retryCount) == retryCount <= 5

\* onRateLimit: searchThrottle = 500 + (options.request.retryCount * 1000)
onRateLimitThrottle(retryCount) == 500 + (retryCount * 1000)

onAbuseLimitRetries_Twice(retryCount) == retryCount <= 1

\* onAbuseLimit: if (options.request.retryCount < 1) ... return true
onAbuseLimitRetries(retryCount) == retryCount < 1

\* onAbuseLimit: searchThrottle *= 2
onAbuseLimitThrottle(throttle) == throttle * 2

(***************************************************************************)
(* throttledPromiseAll                                                     *)
(***************************************************************************)
NoTpa == [phase |-> "none", i |-> 0, additionalThrottling |-> 0, timer |-> -1, results |-> <<>>]

TimeoutDelay_Default(additionalThrottling) == 0

\* setTimeout(resolve, additionalThrottling)
TimeoutDelay(additionalThrottling) == additionalThrottling

\* the synchronous part of throttledPromiseAll(promises, additionalThrottling)
\* for n promises: results = [], first iteration suspended at "await promise";
\* without promises the loop is skipped and the results are returned
throttledPromiseAll(n, additionalThrottling) ==
    [phase |-> IF n = 0 THEN "resolved" ELSE "await",
     i |-> IF n = 0 THEN 0 ELSE 1,
     additionalThrottling |-> additionalThrottling,
     timer |-> -1, results |-> <<>>]

push_Front(results, value) == <<value>> \o results

\* results.push(value)
push(results, value) == Append(results, value)

\* results.push(await promise) with the value of the promise, then
\* await new Promise(resolve => setTimeout(resolve, additionalThrottling))
awaitResolved(c, value) ==
    [c EXCEPT !.phase = "delay", !.results = push(@, value),
              !.timer = TimeoutDelay(c.additionalThrottling)]

\* the timer fires: the next of the n promises, or return Promise.resolve(results)
timerFired(c, n) ==
    IF c.i < n
    THEN [c EXCEPT !.phase = "await", !.i = @ + 1, !.timer = -1]
    ELSE [c EXCEPT !.phase = "resolved", !.timer = -1]

\* .catch((e) => { console.error(...); exit(1); })
CatchExitCode == 1

(***************************************************************************)
(* Reviews.  A pull request is known by its html_url, a number from 1; 0   *)
(* stands for no URL.                                                      *)
(***************************************************************************)
\* what _.find returns when no element matches
Undefined == [html_url |-> 0, title |-> 0]

\* a pull request as the search returns it
PullRequest(url) == [html_url |-> url, title |-> url]

\* review.html_url.replace(/#.*$/, '') of the user's 'reviewed' event of one
\* timeline: 0 when the timeline has none, MaxItems + 1 is the URL of no
\* pull request of the search
EventUrls == 0..(MaxItems + 1)

NoEvents == [k \in 1..MaxItems |-> 0]

\* _.find(reviewedPRs, reviewedPR => reviewedPR.html_url === url)
findPR(prs, url) ==
    IF \E pr \in prs : pr.html_url = url
    THEN CHOOSE pr \in prs : pr.html_url = url
    ELSE Undefined

titleThrows_Optional(pr) == FALSE

\* review.prTitle = pr.title: a TypeError when pr is undefined
titleThrows(pr) == pr = Undefined

\* _.flatten(events, 1), then the filter on 'reviewed' events of the user:
\* the URLs in the order of the timelines
RECURSIVE reviewedEvents(_, _)
reviewedEvents(ev, k) ==
    IF k > MaxItems THEN <<>>
    ELSE (IF ev[k] # 0 THEN <<ev[k]>> ELSE <<>>) \o reviewedEvents(ev, k + 1)

\* the callback of _.map(reviews, ...) throws for some review
mapReviewsThrows(urls, prs) ==
    \E i \in 1..Len(urls) : titleThrows(findPR(prs, urls[i]))

\* _.map(reviews, review => {...; review.prTitle = pr.title; return review;})
mapReviews(urls, prs) ==
    [i \in 1..Len(urls) |->
        [html_url |-> urls[i], prTitle |-> findPR(prs, urls[i]).title]]

(***************************************************************************)
(* Microtasks: continuations that run before the event loop takes the next *)
(* response or timer                                                       *)
(***************************************************************************)
Running == exitCode = -1

StageReqs(s) ==
    CASE s = "comments"  -> CommentReqs
      [] s = "timelines" -> TimelineReqs
      [] s = "prs"       -> AssociatedPRReqs
      [] OTHER           -> {}

StageResolved_NoWait(s) == stage = s

\* Promise.all over the requests of the stage has resolved
StageResolved(s) == stage = s /\ \A r \in StageReqs(s) : req[r].st \in {"idle", "ok"}

\* Promise.all over the requests of the stage has rejected
StageRejected(s) == stage = s /\ \E r \in StageReqs(s) : req[r].st = "failed"

\* a query promise rejected while throttledPromiseAll is not awaiting it
UnhandledQuery(i) ==
    /\ stage = "queries"
    /\ tpa.phase \in {"await", "delay"}
    /\ i > tpa.i
    /\ req[Query(i)].st = "failed"

MicrotaskPending ==
    \/ pc = "getUsername" /\ req[UserReq].st \in {"ok", "failed"}
    \/ tpa.phase = "await" /\ req[Query(tpa.i)].st \in {"ok", "failed"}
    \/ stage = "queries" /\ tpa.phase = "resolved"
    \/ \E s \in {"comments", "timelines", "prs"} : StageResolved(s) \/ StageRejected(s)
    \/ stage = "rejected"
    \/ stage = "resolved"
    \/ unhandledRejections = "throw" /\ \E i \in 1..4 : UnhandledQuery(i)

\* the reviewedPRs of the call, the user's own filtered out: one timeline
\* request was made for each
reviewedPRs ==
    {PullRequest(r[2]) : r \in {t \in TimelineReqs : req[t].st # "idle"}}

NoEntities == [issues |-> <<>>, reviews |-> <<>>, comments |-> <<>>, commits |-> <<>>]

NoDataSet == [keys |-> <<>>, data |-> <<>>]

\* the commit filter is not looked at
CommitsIdle ==
    /\ foundCommits = <<>>
    /\ finalCommits = <<>>
    /\ cpc = "off"

\* the aggregation step is not looked at
BucketIdle ==
    /\ machineOffset = 0
    /\ timezone = 0
    /\ argvStartDate = 1
    /\ argvEndDate = 1
    /\ dateRange = [startDate |-> 0, endDate |-> 0, twoWeeksBefore |-> 0]
    /\ entities = NoEntities
    /\ fullDataSet = NoDataSet
    /\ bpc = "off"

\* the computation of the date ranges is not looked at
RangesIdle ==
    /\ monthDays = 28
    /\ firstWeekday = 0
    /\ monthTenAMs = {}
    /\ dateRanges = <<>>
    /\ rpc = "off"

\* CONST.YEARS
YEARS == <<2019, 2020, 2021>>

\* CONST.MONTHS and CONST.MONTHS_3_DIGIT: a month is known by its number
MONTHS == <<1, 2, 3, 4, 5, 6, 7, 8, 9, 10, 11, 12>>

\* CONST.WEEKDAYS
WEEKDAYS == {"MONDAY", "TUESDAY", "WEDNESDAY", "THURSDAY", "FRIDAY"}

\* the elements of an array
Elements(array) == {array[i] : i \in 1..Len(array)}

\* the accumulator {} of a reduce over tokens: the keys it has, and the text
\* of each
NoAcc(order) == [has |-> {}, data |-> [t \in Elements(order) |-> <<>>]]

\* parseTenAMData is not looked at
NotesIdle ==
    /\ rawTenAMData = <<>>
    /\ annualData = NoAcc(YEARS)
    /\ monthlyData = [y \in Elements(YEARS) |-> NoAcc(MONTHS)]
    /\ tenAMData = {}
    /\ ppc = "off"

\* throttledPromiseAll is not looked at on its own
CallIdle ==
    /\ promises = <<>>
    /\ settled = <<>>
    /\ call = NoTpa

\* an object without keys: no year has months, and there is no day entry
NoData == [months |-> [y \in Elements(YEARS) |-> <<>>], days |-> {}]

\* the loops of run() are not looked at
MergeIdle ==
    /\ parsed = NoData
    /\ mergedData = NoData
    /\ plan = <<>>
    /\ fetched = {}
    /\ activity = FALSE
    /\ runMachine = 0
    /\ runZone = 0
    /\ output = <<>>
    /\ mpc = "off"

\* no call of enumerateDaysBetweenDates is looked at
EnumIdle ==
    /\ enumZone = 0
    /\ enumStart = 0
    /\ enumEnd = 0
    /\ enumDates = <<>>
    /\ epc = "off"

\* a command line that passes every check
ValidArgv ==
    [datesValid |-> TRUE, tenAMExists |-> TRUE, startAfterEnd |-> FALSE,
     timezoneValid |-> TRUE, flagsConflict |-> FALSE]

\* the command lines: the dates are those of --date, --startDate and
\* --endDate, the file that of --tenAM; an option that is not given fails no
\* check, and startDate is after endDate only when both are dates
ArgvInputs(m) ==
    {a \in [datesValid : BOOLEAN, tenAMExists : BOOLEAN, startAfterEnd : BOOLEAN,
            timezoneValid : BOOLEAN, flagsConflict : BOOLEAN] :
        /\ a.startAfterEnd => a.datesValid
        /\ (m = "tenAM" /\ ~a.flagsConflict) => (a.datesValid /\ ~a.startAfterEnd)
        /\ (m = "date" /\ ~a.flagsConflict) => a.tenAMExists}

\* no run is looked at
RunIdle ==
    /\ argv = ValidArgv
    /\ mode = "date"
    /\ unhandledRejections = "throw"
    /\ rangesLeft = 0
    /\ pc = "parseArgs"
    /\ searchThrottle = 500
    /\ req = [r \in ReqIds |-> IdleReq]
    /\ stage = "none"
    /\ tpa = NoTpa
    /\ throttled = 0
    /\ events = NoEvents
    /\ reviews = <<>>
    /\ outputFile = "none"
    /\ exitCode = -1

\* only one part is looked at
IdleExcept(part) ==
    /\ IF part = "run" THEN TRUE ELSE RunIdle
    /\ IF part = "bucket" THEN TRUE ELSE BucketIdle
    /\ IF part = "commits" THEN TRUE ELSE CommitsIdle
    /\ IF part = "ranges" THEN TRUE ELSE RangesIdle
    /\ IF part = "enum" THEN TRUE ELSE EnumIdle
    /\ IF part = "notes" THEN TRUE ELSE NotesIdle
    /\ IF part = "call" THEN TRUE ELSE CallIdle
    /\ IF part = "merge" THEN TRUE ELSE MergeIdle

(***************************************************************************)
(* Init                                                                    *)
(***************************************************************************)
Init ==
    /\ mode \in {"date", "tenAM"}
    /\ argv \in ArgvInputs(mode)
    /\ unhandledRejections \in {"throw", "warn"}
    /\ rangesLeft \in (IF mode = "tenAM" THEN 0..MaxRanges ELSE {0})
    /\ pc = "parseArgs"
    /\ searchThrottle = 500
    /\ req = [r \in ReqIds |-> IdleReq]
    /\ stage = "none"
    /\ tpa = NoTpa
    /\ throttled = 0
    /\ events = NoEvents
    /\ reviews = <<>>
    /\ outputFile = "none"
    /\ exitCode = -1
    /\ IdleExcept("run")

(***************************************************************************)
(* The command line                                                        *)
(***************************************************************************)
\* conflicts: [...] of the options date, startDate, endDate, tenAM
conflicts(a) == a.flagsConflict

check_NoTimezone(a) ==
    /\ a.datesValid
    /\ a.tenAMExists
    /\ ~a.startAfterEnd

\* .check((argv) => {...; return true;}): no throw
check(a) ==
    /\ a.datesValid
    /\ a.tenAMExists
    /\ ~a.startAfterEnd
    /\ a.timezoneValid

\* yargs reads the command line when the module is loaded: a failed
\* validation prints the message and ends the process with status 1; else
\* the module goes on to run(), which calls getGitHubUsername()
ParseArgs ==
    /\ Running
    /\ pc = "parseArgs"
    /\ IF conflicts(argv) \/ ~check(argv)
       THEN /\ exitCode' = 1
            /\ UNCHANGED <<pc, req>>
       ELSE /\ pc' = "getUsername"
            /\ req' = [req EXCEPT ![UserReq] = PendingReq]
            /\ exitCode' = exitCode
    /\ UNCHANGED <<stepVars, reviewVars, throttled, argv, mode, unhandledRejections, rangesLeft,
                   searchThrottle, stage, tpa, outputFile>>

(***************************************************************************)
(* The remote service answers a request                                    *)
(***************************************************************************)
RequestSucceeds(r) ==
    /\ Running /\ ~MicrotaskPending
    /\ req[r].st = "pending"
    /\ req' = [req EXCEPT ![r] = Finished("ok", "none")]
    /\ IF r \in TimelineReqs
       THEN \E url \in EventUrls : events' = [events EXCEPT ![r[2]] = url]
       ELSE events' = events
    /\ UNCHANGED <<stepVars, reviews, throttled, mode, argv, unhandledRejections, pc, rangesLeft, searchThrottle,
                   stage, tpa, outputFile, exitCode>>

\* an unexpected (non-throttling) error
RequestFails(r) ==
    /\ Running /\ ~MicrotaskPending
    /\ req[r].st = "pending"
    /\ req' = [req EXCEPT ![r] = Finished("failed", "error")]
    /\ UNCHANGED <<stepVars, reviewVars, throttled, mode, argv, unhandledRejections, pc, rangesLeft, searchThrottle,
                   stage, tpa, outputFile, exitCode>>

\* the throttling plugin calls onRateLimit(retryAfter, options)
RateLimitSignal(r) ==
    /\ Running /\ ~MicrotaskPending
    /\ req[r].st = "pending"
    /\ MayThrottle(r)
    /\ throttled' = IF req[r].retryCount = 0 THEN throttled + 1 ELSE throttled
    /\ IF onRateLimitRetries(req[r].retryCount)
       THEN /\ searchThrottle' = onRateLimitThrottle(req[r].retryCount)
            /\ req' = [req EXCEPT ![r].retryCount = @ + 1]
       ELSE /\ searchThrottle' = searchThrottle
            /\ req' = [req EXCEPT ![r] = Finished("failed", "rate")]
    /\ UNCHANGED <<stepVars, reviewVars, mode, argv, unhandledRejections, pc, rangesLeft, stage, tpa,
                   outputFile, exitCode>>

\* the throttling plugin calls onAbuseLimit(retryAfter, options)
AbuseSignal(r) ==
    /\ Running /\ ~MicrotaskPending
    /\ req[r].st = "pending"
    /\ MayThrottle(r)
    /\ throttled' = IF req[r].retryCount = 0 THEN throttled + 1 ELSE throttled
    /\ IF onAbuseLimitRetries(req[r].retryCount)
       THEN /\ searchThrottle' = onAbuseLimitThrottle(searchThrottle)
            /\ req' = [req EXCEPT ![r].retryCount = @ + 1, ![r].abuseRetries = @ + 1]
       ELSE /\ searchThrottle' = searchThrottle
            /\ req' = [req EXCEPT ![r] = Finished("failed", "abuse")]
    /\ UNCHANGED <<stepVars, reviewVars, mode, argv, unhandledRejections, pc, rangesLeft, stage, tpa,
                   outputFile, exitCode>>

(***************************************************************************)
(* getGitHubData: the call                                                 *)
(***************************************************************************)
\* the array literal calls octokit.paginate four times, then
\* throttledPromiseAll(array, searchThrottle) runs up to its first await
getGitHubData(throttle) ==
    /\ req' = [r \in ReqIds |->
                 IF r \in QueryReqs THEN PendingReq
                 ELSE IF r \in DataReqs THEN IdleReq
                 ELSE req[r]]
    /\ tpa' = throttledPromiseAll(4, throttle)
    /\ stage' = "queries"
    /\ events' = NoEvents
    /\ reviews' = <<>>

(***************************************************************************)
(* run()                                                                   *)
(***************************************************************************)
\* await getGitHubUsername() resolved, date / date-range mode:
\* getGitHubData(...).then(...) is not awaited, writeFileSync follows at once
RunDateMode ==
    /\ Running
    /\ pc = "getUsername" /\ req[UserReq].st = "ok"
    /\ mode = "date"
    /\ getGitHubData(searchThrottle)
    /\ outputFile' = "empty"
    /\ pc' = "returned"
    /\ UNCHANGED <<stepVars, throttled, mode, argv, unhandledRejections, rangesLeft, searchThrottle,
                   exitCode>>

\* await getGitHubUsername() resolved, note-file mode: parse the dump, then
\* fetch the first date range, or write the notes when no range is missing
RunTenAMMode ==
    /\ Running
    /\ pc = "getUsername" /\ req[UserReq].st = "ok"
    /\ mode = "tenAM"
    /\ IF rangesLeft > 0
       THEN /\ getGitHubData(searchThrottle)
            /\ rangesLeft' = rangesLeft - 1
            /\ pc' = "awaitData"
            /\ outputFile' = outputFile
       ELSE /\ outputFile' = "full"
            /\ pc' = "returned"
            /\ UNCHANGED <<req, tpa, stage, rangesLeft, reviewVars>>
    /\ UNCHANGED <<stepVars, throttled, mode, argv, unhandledRejections, searchThrottle, exitCode>>

\* await getGitHubUsername() rejected: run() rejects and nothing handles it
RunUsernameRejected ==
    /\ Running
    /\ pc = "getUsername" /\ req[UserReq].st = "failed"
    /\ pc' = "returned"
    /\ exitCode' = IF unhandledRejections = "throw" THEN 1 ELSE exitCode
    /\ UNCHANGED <<stepVars, reviewVars, throttled, mode, argv, unhandledRejections, rangesLeft, searchThrottle, req,
                   stage, tpa, outputFile>>

RunMergeRange_NoAwait ==
    /\ Running
    /\ pc = "awaitData" /\ stage \in {"queries", "resolved"}
    /\ IF rangesLeft > 0
       THEN /\ getGitHubData(searchThrottle)
            /\ rangesLeft' = rangesLeft - 1
            /\ UNCHANGED <<pc, outputFile>>
       ELSE /\ outputFile' = "full"
            /\ pc' = "returned"
            /\ stage' = "none"
            /\ UNCHANGED <<req, tpa, rangesLeft, reviewVars>>
    /\ UNCHANGED <<stepVars, throttled, mode, argv, unhandledRejections, searchThrottle, exitCode>>

\* note-file mode: await getGitHubData(...) resolved; lodashMerge, then the
\* next range, or the rendering loop and writeFileSync
RunMergeRange ==
    /\ Running
    /\ pc = "awaitData" /\ stage = "resolved"
    /\ IF rangesLeft > 0
       THEN /\ getGitHubData(searchThrottle)
            /\ rangesLeft' = rangesLeft - 1
            /\ UNCHANGED <<pc, outputFile>>
       ELSE /\ outputFile' = "full"
            /\ pc' = "returned"
            /\ stage' = "none"
            /\ UNCHANGED <<req, tpa, rangesLeft, reviewVars>>
    /\ UNCHANGED <<stepVars, throttled, mode, argv, unhandledRejections, searchThrottle, exitCode>>

\* date mode: .then(dataset => ... output += ...) after run() has returned
RunDateThen ==
    /\ Running
    /\ pc = "returned" /\ stage = "resolved"
    /\ stage' = "none"
    /\ UNCHANGED <<stepVars, reviewVars, throttled, mode, argv, unhandledRejections, pc, rangesLeft, searchThrottle,
                   req, tpa, outputFile, exitCode>>

(***************************************************************************)
(* throttledPromiseAll: the loop                                           *)
(***************************************************************************)
\* results.push(await promise); then the timer is armed
TpaAwaitResolved ==
    /\ Running
    /\ tpa.phase = "await" /\ req[Query(tpa.i)].st = "ok"
    /\ tpa' = awaitResolved(tpa, Query(tpa.i))
    /\ UNCHANGED <<stepVars, reviewVars, throttled, mode, argv, unhandledRejections, pc, rangesLeft, searchThrottle,
                   req, stage, outputFile, exitCode>>

\* await promise throws: the async function rejects
TpaAwaitRejected ==
    /\ Running
    /\ tpa.phase = "await" /\ req[Query(tpa.i)].st = "failed"
    /\ tpa' = [tpa EXCEPT !.phase = "rejected"]
    /\ stage' = "rejected"
    /\ UNCHANGED <<stepVars, reviewVars, throttled, mode, argv, unhandledRejections, pc, rangesLeft, searchThrottle,
                   req, outputFile, exitCode>>

\* the timer fires: next iteration, or return Promise.resolve(results)
TpaTimerFires ==
    /\ Running /\ ~MicrotaskPending
    /\ tpa.phase = "delay"
    /\ tpa' = timerFired(tpa, 4)
    /\ UNCHANGED <<stepVars, reviewVars, throttled, mode, argv, unhandledRejections, pc, rangesLeft, searchThrottle,
                   req, stage, outputFile, exitCode>>

\* a query promise that nothing awaits yet rejects: the runtime's default for
\* unhandled rejections ends the process, or only warns
UnhandledRejectionThrows ==
    /\ Running
    /\ unhandledRejections = "throw"
    /\ \E i \in 1..4 : UnhandledQuery(i)
    /\ exitCode' = 1
    /\ UNCHANGED <<stepVars, reviewVars, throttled, mode, argv, unhandledRejections, pc, rangesLeft, searchThrottle,
                   req, stage, tpa, outputFile>>

(***************************************************************************)
(* getGitHubData: the promise chain                                        *)
(***************************************************************************)
StartStage(s, n) ==
    /\ stage' = s
    /\ req' = [r \in ReqIds |->
                 IF r \in StageReqs(s) /\ r[2] <= n THEN PendingReq ELSE req[r]]

\* .then(([...]) => Promise.all(_.map(issuesAndPullRequestsCommented, ...)))
FetchComments ==
    /\ Running
    /\ stage = "queries" /\ tpa.phase = "resolved"
    /\ \E n \in 0..MaxItems : StartStage("comments", n)
    /\ UNCHANGED <<stepVars, reviewVars, throttled, mode, argv, unhandledRejections, pc, rangesLeft, searchThrottle,
                   tpa, outputFile, exitCode>>

\* .then(({...}) => Promise.all(_.map(reviewedPRs, ... /timeline)))
FetchTimelines ==
    /\ Running
    /\ StageResolved("comments")
    /\ \E n \in 0..MaxItems : StartStage("timelines", n)
    /\ UNCHANGED <<stepVars, reviewVars, throttled, mode, argv, unhandledRejections, pc, rangesLeft, searchThrottle,
                   tpa, outputFile, exitCode>>

\* the timelines are in; the callback of _.map(reviews, ...) throws: the
\* chain rejects
MapReviewsRejects ==
    /\ Running
    /\ StageResolved("timelines")
    /\ mapReviewsThrows(reviewedEvents(events, 1), reviewedPRs)
    /\ stage' = "rejected"
    /\ UNCHANGED <<stepVars, reviewVars, throttled, mode, argv, unhandledRejections, pc, rangesLeft,
                   searchThrottle, req, tpa, outputFile, exitCode>>

\* the timelines are in and every review has got its prTitle; then
\* .then(({...}) => Promise.all(_.map(commits, ... listPullRequestsAssociatedWithCommit)))
FetchAssociatedPRs ==
    /\ Running
    /\ StageResolved("timelines")
    /\ ~mapReviewsThrows(reviewedEvents(events, 1), reviewedPRs)
    /\ reviews' = mapReviews(reviewedEvents(events, 1), reviewedPRs)
    /\ \E n \in 0..MaxItems : StartStage("prs", n)
    /\ UNCHANGED <<stepVars, events, throttled, mode, argv, unhandledRejections, pc, rangesLeft, searchThrottle,
                   tpa, outputFile, exitCode>>

\* the aggregation callback returns fullDataSet: getGitHubData resolves
AggregateByDate ==
    /\ Running
    /\ StageResolved("prs")
    /\ stage' = "resolved"
    /\ UNCHANGED <<stepVars, reviewVars, throttled, mode, argv, unhandledRejections, pc, rangesLeft, searchThrottle,
                   req, tpa, outputFile, exitCode>>

\* Promise.all rejects with the first failure of the stage
StageFails ==
    /\ Running
    /\ \E s \in {"comments", "timelines", "prs"} : StageRejected(s)
    /\ stage' = "rejected"
    /\ UNCHANGED <<stepVars, reviewVars, throttled, mode, argv, unhandledRejections, pc, rangesLeft, searchThrottle,
                   req, tpa, outputFile, exitCode>>

CatchExit_LogOnly ==
    /\ Running
    /\ stage = "rejected"
    /\ stage' = "resolved"
    /\ UNCHANGED <<stepVars, reviewVars, throttled, mode, argv, unhandledRejections, pc, rangesLeft,
                   searchThrottle, req, tpa, outputFile, exitCode>>

\* .catch((e) => { console.error(...); exit(1); })
CatchExit ==
    /\ Running
    /\ stage = "rejected"
    /\ exitCode' = CatchExitCode
    /\ UNCHANGED <<stepVars, reviewVars, throttled, mode, argv, unhandledRejections, pc, rangesLeft, searchThrottle,
                   req, stage, tpa, outputFile>>

\* nothing is left on the event loop: the process ends with status 0
ProcessEnd ==
    /\ Running /\ ~MicrotaskPending
    /\ pc = "returned" /\ stage = "none"
    /\ \A r \in ReqIds : req[r].st # "pending"
    /\ exitCode' = 0
    /\ UNCHANGED <<stepVars, reviewVars, throttled, mode, argv, unhandledRejections, pc, rangesLeft, searchThrottle,
                   req, stage, tpa, outputFile>>

Next ==
    \/ ParseArgs
    \/ \E r \in ReqIds : RequestSucceeds(r)
    \/ \E r \in ReqIds : RequestFails(r)
    \/ \E r \in ReqIds : RateLimitSignal(r)
    \/ \E r \in ReqIds : AbuseSignal(r)
    \/ RunDateMode
    \/ RunTenAMMode
    \/ RunUsernameRejected
    \/ RunMergeRange
    \/ RunDateThen
    \/ TpaAwaitResolved
    \/ TpaAwaitRejected
    \/ TpaTimerFires
    \/ UnhandledRejectionThrows
    \/ FetchComments
    \/ FetchTimelines
    \/ MapReviewsRejects
    \/ FetchAssociatedPRs
    \/ AggregateByDate
    \/ StageFails
    \/ CatchExit
    \/ ProcessEnd

Spec == Init /\ [][Next]_vars

\* the event loop runs a continuation or a timer that is ready, the service
\* answers every request it has got, and the process ends when nothing is
\* left to do
FairSpec == Spec /\ WF_vars(Next)

(***************************************************************************)
(* Dates.  An instant is a number of ticks since the epoch; a zone is its  *)
(* UTC offset in ticks; a calendar day, and so a 'YYYY-MM-DD' key, is the  *)
(* number of the day.                                                      *)
(***************************************************************************)
Offsets == (0 - MaxOffset)..MaxOffset

Days == 1..MaxDay

Instants == 0..((MaxDay + 2) * TicksPerDay - 1)

Kinds == {"issues", "reviews", "comments", "commits"}

\* the calendar day an instant falls on in a zone
DayOf(instant, offset) == (instant + offset) \div TicksPerDay

\* moment.tz(`${date} 00:00:00`, zone), moment(key): local midnight of a day
Midnight(day, offset) == day * TicksPerDay - offset

\* m.startOf('day') of a moment kept in a zone
startOfDay(instant, offset) == Midnight(DayOf(instant, offset), offset)

\* m.endOf('day') of a moment kept in a zone
endOfDay(instant, offset) == startOfDay(instant, offset) + TicksPerDay - 1

\* moment(date).format(CONST.DATE_FORMAT_STANDARD): moment() keeps the
\* instant in the machine's zone, whatever offset the string carried
formatStandard(instant, machine) == DayOf(instant, machine)

\* DateUtils.adjustDateAndTimezoneForGitHub(timezone, startDate, endDate)
adjustDateAndTimezoneForGitHub(zone, start, end) ==
    [startDate      |-> Midnight(start, zone),
     endDate        |-> Midnight(end, zone) + TicksPerDay - 1,
     twoWeeksBefore |-> Midnight(start, zone) - 14 * TicksPerDay]

\* the moment made from a string that is not a date: a value apart from
\* every instant the model computes
InvalidDate == 0 - (1000 * TicksPerDay)

\* m.isValid()
isValid(date) == date # InvalidDate

\* moment(date).startOf('day') in the machine's zone; an invalid moment stays
\* invalid
momentStartOfDay(date, machine) ==
    IF isValid(date) THEN startOfDay(date, machine) ELSE InvalidDate

\* m.add(1, 'days'); an invalid moment stays invalid
addOneDay(date) == IF isValid(date) THEN date + TicksPerDay ELSE InvalidDate

diffIsNegative_OrZero(a, b) == isValid(a) /\ isValid(b) /\ a - b <= 0

\* a.diff(b) < 0: diff is NaN when a moment is invalid, and NaN < 0 is false
diffIsNegative(a, b) == isValid(a) /\ isValid(b) /\ a - b < 0

\* while (currDate.add(1, 'days').diff(lastDate) < 0) dates.push(currDate.clone().toDate())
RECURSIVE enumerateLoop(_, _)
enumerateLoop(currDate, lastDate) ==
    LET next == addOneDay(currDate)
    IN  IF diffIsNegative(next, lastDate)
        THEN <<next>> \o enumerateLoop(next, lastDate)
        ELSE <<>>

\* DateUtils.enumerateDaysBetweenDates(startDate, endDate)
enumerateDaysBetweenDates(start, end, machine) ==
    enumerateLoop(momentStartOfDay(start, machine), momentStartOfDay(end, machine))

\* m.isSame(key, 'day') for m = moment(timestamp).tz(argv.timezone): the key
\* is parsed by moment(key) in the machine's zone
isSameDay(timestamp, zone, key, machine) ==
    /\ startOfDay(timestamp, zone) <= Midnight(key, machine)
    /\ Midnight(key, machine) <= endOfDay(timestamp, zone)

\* .reduce((memo, date) => { memo[date] = {...}; return memo; }, {}): the
\* keys of the object in insertion order
RECURSIVE distinctKeys(_)
distinctKeys(dates) ==
    IF dates = <<>> THEN <<>>
    ELSE LET front == distinctKeys(SubSeq(dates, 1, Len(dates) - 1))
             last  == dates[Len(dates)]
         IN  IF \E i \in 1..Len(front) : front[i] = last
             THEN front
             ELSE Append(front, last)

\* [startDate, ...enumerateDaysBetweenDates(startDate, endDate), endDate]
\* mapped to keys
bucketKeys(range, machine) ==
    LET dates == <<range.startDate>>
                 \o enumerateDaysBetweenDates(range.startDate, range.endDate, machine)
                 \o <<range.endDate>>
    IN  distinctKeys([i \in 1..Len(dates) |-> formatStandard(dates[i], machine)])

\* _.each(list, item => _.each(fullDataSet, (dataForDate, distinctDate) => ...push))
bucketOf(list, zone, key, machine) ==
    LET Same(e) == isSameDay(e.ts, zone, key, machine)
    IN  SelectSeq(list, Same)

\* the aggregation callback of getGitHubData
aggregateByDate(range, found, zone, machine) ==
    LET keys == bucketKeys(range, machine)
    IN  [keys |-> keys,
         data |-> [k \in {keys[i] : i \in 1..Len(keys)} |->
                     [kind \in Kinds |-> bucketOf(found[kind], zone, k, machine)]]]

(***************************************************************************)
(* The aggregation step on bounded inputs                                  *)
(***************************************************************************)
\* yargs has checked the dates: startDate is not after endDate
InitBucket ==
    /\ IdleExcept("bucket")
    /\ machineOffset \in Offsets
    /\ timezone \in Offsets
    /\ argvStartDate \in Days
    /\ argvEndDate \in {d \in Days : d >= argvStartDate}
    /\ dateRange = [startDate |-> 0, endDate |-> 0, twoWeeksBefore |-> 0]
    /\ entities = NoEntities
    /\ fullDataSet = NoDataSet
    /\ bpc = "adjust"

\* run(): DateUtils.adjustDateAndTimezoneForGitHub(argv.timezone, ...)
AdjustDates ==
    /\ bpc = "adjust"
    /\ dateRange' = adjustDateAndTimezoneForGitHub(timezone, argvStartDate, argvEndDate)
    /\ bpc' = "collect"
    /\ UNCHANGED <<besideBucket, machineOffset, timezone, argvStartDate, argvEndDate,
                   entities, fullDataSet>>

EntityCount == Len(entities.issues) + Len(entities.reviews)
               + Len(entities.comments) + Len(entities.commits)

\* the remote service returns one more entity, with some timestamp
CollectEntity(kind, ts) ==
    /\ bpc = "collect"
    /\ EntityCount < MaxEntities
    /\ entities' = [entities EXCEPT
                      ![kind] = Append(@, [id |-> Len(@) + 1, ts |-> ts])]
    /\ UNCHANGED <<besideBucket, machineOffset, timezone, argvStartDate, argvEndDate,
                   dateRange, fullDataSet, bpc>>

\* the aggregation callback runs on what was collected
BucketByDate ==
    /\ bpc = "collect"
    /\ fullDataSet' = aggregateByDate(dateRange, entities, timezone, machineOffset)
    /\ bpc' = "done"
    /\ UNCHANGED <<besideBucket, machineOffset, timezone, argvStartDate, argvEndDate,
                   dateRange, entities>>

NextBucket ==
    \/ AdjustDates
    \/ \E kind \in Kinds, ts \in Instants : CollectEntity(kind, ts)
    \/ BucketByDate

SpecBucket == InitBucket /\ [][NextBucket]_vars

(***************************************************************************)
(* The commit filter on bounded inputs                                     *)
(***************************************************************************)
Logins == {"user", "other"}

\* the login getGitHubUsername returned
username == "user"

\* the data of one listPullRequestsAssociatedWithCommit response: pull
\* requests numbered in the order returned, each with the login of its author
AssociatedLists ==
    UNION {[1..n -> Logins] : n \in 0..MaxAssociated}

AssociatedPRs(logins) ==
    [i \in 1..Len(logins) |-> [number |-> i, login |-> logins[i]]]

authoredBy_Anyone(pr, login) == TRUE

\* pr => pr.user.login === username
authoredBy(pr, login) == pr.login = login

\* .then(({data}) => ({...commit, associatedPullRequests: _.filter(data, ...)}))
withAssociatedPullRequests(commit) ==
    LET Own(pr) == authoredBy(pr, username)
    IN  [sha |-> commit.sha, associatedPullRequests |-> SelectSeq(commit.data, Own)]

\* _.filter(commitsWithAssociatedPullRequests,
\*          commit => !_.isEmpty(commit.associatedPullRequests))
filterCommits(commits) ==
    LET NotEmpty(commit) == commit.associatedPullRequests # <<>>
    IN  SelectSeq([i \in 1..Len(commits) |-> withAssociatedPullRequests(commits[i])],
                  NotEmpty)

InitCommits ==
    /\ IdleExcept("commits")
    /\ foundCommits = <<>>
    /\ finalCommits = <<>>
    /\ cpc = "collect"

\* the search returns one more commit; the remote service knows these pull
\* requests for it
CollectCommit(logins) ==
    /\ cpc = "collect"
    /\ Len(foundCommits) < MaxCommits
    /\ foundCommits' = Append(foundCommits,
                              [sha |-> Len(foundCommits) + 1, data |-> AssociatedPRs(logins)])
    /\ UNCHANGED <<besideCommits, finalCommits, cpc>>

\* the third stage of the chain of getGitHubData
FilterCommits ==
    /\ cpc = "collect"
    /\ finalCommits' = filterCommits(foundCommits)
    /\ cpc' = "done"
    /\ UNCHANGED <<besideCommits, foundCommits>>

NextCommits ==
    \/ \E logins \in AssociatedLists : CollectCommit(logins)
    \/ FilterCommits

SpecCommits == InitCommits /\ [][NextCommits]_vars

(***************************************************************************)
(* Properties of the commit filter                                         *)
(***************************************************************************)
\* the numbers of the pull requests of a list, in the order of the list
Numbers(prs) == [i \in 1..Len(prs) |-> prs[i].number]

\* C12: a commit of the search is in the final set exactly when one of its
\* associated pull requests is authored by the user, no commit is added or
\* repeated, and the associatedPullRequests of a retained commit are the
\* user-authored ones among those returned, all of them, once each, in the
\* order returned.
C12_CommitsWithOwnPRs ==
    cpc = "done" =>
        /\ \A i \in 1..Len(foundCommits) :
              (\E j \in 1..Len(finalCommits) : finalCommits[j].sha = foundCommits[i].sha)
              <=> (\E k \in 1..Len(foundCommits[i].data) :
                      foundCommits[i].data[k].login = username)
        /\ \A j \in 1..Len(finalCommits) :
              /\ \E i \in 1..Len(foundCommits) : foundCommits[i].sha = finalCommits[j].sha
              /\ \A j2 \in 1..Len(finalCommits) :
                    j < j2 => finalCommits[j].sha < finalCommits[j2].sha
              /\ LET kept == finalCommits[j].associatedPullRequests
                     data == foundCommits[finalCommits[j].sha].data
                 IN  /\ \A k \in 1..Len(data) :
                           (data[k].login = username)
                           <=> (\E m \in 1..Len(kept) : kept[m] = data[k])
                     /\ \A m \in 1..Len(kept) : \E k \in 1..Len(data) : kept[m] = data[k]
                     /\ \A m \in 1..Len(kept), m2 \in 1..Len(kept) :
                           m < m2 => kept[m].number < kept[m2].number

\* a commit with a pull request of someone else and one of the user is kept
\* with the user's only, a commit with none of the user's is left out
C12_Witness ==
    /\ cpc = "done"
    /\ Len(foundCommits) = 2 /\ Len(finalCommits) = 1
    /\ Len(foundCommits[finalCommits[1].sha].data) = 2
    /\ Len(finalCommits[1].associatedPullRequests) = 1

(***************************************************************************)
(* The date ranges of a month on bounded inputs.  Within one month a       *)
(* 'YYYY-MM-DD' key is known by its day of the month.                      *)
(***************************************************************************)
\* moment(`${currentMonth} ${currentYear}`, 'MMMM YYYY').daysInMonth()
MonthLengths == 28..31

\* moment(date).day() of a day of the month: 0 is Sunday, 6 is Saturday
dayOfWeek(date, first) == (first + date - 1) % 7

\* DateUtils.isWeekday: !(moment(date).day() % 6 === 0)
isWeekday(date, first) == ~(dayOfWeek(date, first) % 6 = 0)

\* Array.from({length}, (_, i) => i + 1).map(format).filter(isWeekday)
\*      .difference(_.keys(monthTenAMs)), in ascending order
RECURSIVE missingDays(_, _, _, _)
missingDays(date, length, first, known) ==
    IF date > length THEN <<>>
    ELSE (IF isWeekday(date, first) /\ date \notin known THEN <<date>> ELSE <<>>)
         \o missingDays(date + 1, length, first, known)

startsRange_Never(prevDate, date) == FALSE

\* Number(_.last(prevSubArray).slice(-2)) !== Number(date.slice(-2)) - 1
startsRange(prevDate, date) == prevDate # date - 1

\* .reduce((acc, date) => {...; _.last(acc).push(date); return acc;}, [])
RECURSIVE reduceRanges(_, _)
reduceRanges(acc, dates) ==
    IF dates = <<>> THEN acc
    ELSE LET date == Head(dates)
             open == IF acc = <<>> \/ startsRange(acc[Len(acc)][Len(acc[Len(acc)])], date)
                     THEN Append(acc, <<>>)
                     ELSE acc
         IN  reduceRanges([open EXCEPT ![Len(open)] = Append(@, date)], Tail(dates))

InitRanges ==
    /\ IdleExcept("ranges")
    /\ monthDays \in MonthLengths
    /\ firstWeekday \in 0..6
    /\ monthTenAMs = {}
    /\ dateRanges = <<>>
    /\ rpc = "notes"

\* the note file has a note for one more day of the month
NoteForDay(date) ==
    /\ rpc = "notes"
    /\ Cardinality(monthTenAMs) < MaxNotes
    /\ date \notin monthTenAMs
    /\ monthTenAMs' = monthTenAMs \cup {date}
    /\ UNCHANGED <<besideRanges, monthDays, firstWeekday, dateRanges, rpc>>

\* run(): const dateRanges = _.chain(...)...value()
ComputeDateRanges ==
    /\ rpc = "notes"
    /\ dateRanges' = reduceRanges(<<>>, missingDays(1, monthDays, firstWeekday, monthTenAMs))
    /\ rpc' = "done"
    /\ UNCHANGED <<besideRanges, monthDays, firstWeekday, monthTenAMs>>

NextRanges ==
    \/ \E date \in 1..monthDays : NoteForDay(date)
    \/ ComputeDateRanges

SpecRanges == InitRanges /\ [][NextRanges]_vars

(***************************************************************************)
(* Properties of the date ranges                                           *)
(***************************************************************************)
\* the weekdays of the month that have no note
MissingWeekdays ==
    {d \in 1..monthDays : dayOfWeek(d, firstWeekday) \in 1..5 /\ d \notin monthTenAMs}

\* the places (range, position) of the ranges that hold a day
PlacesOf(d) ==
    UNION {{<<i, j>> : j \in {k \in 1..Len(dateRanges[i]) : dateRanges[i][k] = d}} :
              i \in 1..Len(dateRanges)}

\* C13: the date ranges of a month are the maximal runs of consecutive days
\* among the weekdays without a note, in ascending order: every such day is in
\* exactly one range, a range holds nothing else and is not empty, the days
\* of a range go up by one, and a range starts more than one day after the
\* range before it ends.
C13_RangesAreMaximalRuns ==
    rpc = "done" =>
        /\ \A d \in 1..monthDays :
              Cardinality(PlacesOf(d)) = (IF d \in MissingWeekdays THEN 1 ELSE 0)
        /\ \A i \in 1..Len(dateRanges) :
              /\ dateRanges[i] # <<>>
              /\ \A j \in 1..Len(dateRanges[i]) : dateRanges[i][j] \in MissingWeekdays
              /\ \A j \in 2..Len(dateRanges[i]) :
                    dateRanges[i][j] = dateRanges[i][j - 1] + 1
        /\ \A i \in 2..Len(dateRanges) :
              dateRanges[i][1] > dateRanges[i - 1][Len(dateRanges[i - 1])] + 1

\* a week is cut in two by a note, and the next range starts after a weekend
C13_Witness ==
    /\ rpc = "done"
    /\ Len(dateRanges) >= 3
    /\ \E i \in 2..Len(dateRanges) :
          /\ dateRanges[i][1] = dateRanges[i - 1][Len(dateRanges[i - 1])] + 2
          /\ dateRanges[i][1] - 1 \in monthTenAMs
    /\ \E i \in 2..Len(dateRanges) :
          dateRanges[i][1] = dateRanges[i - 1][Len(dateRanges[i - 1])] + 3

(***************************************************************************)
(* enumerateDaysBetweenDates on bounded inputs                             *)
(***************************************************************************)
InitEnum ==
    /\ IdleExcept("enum")
    /\ enumZone \in Offsets
    /\ enumStart \in Instants \cup {InvalidDate}
    /\ enumEnd \in Instants \cup {InvalidDate}
    /\ enumDates = <<>>
    /\ epc = "call"

\* the body of enumerateDaysBetweenDates has no throw statement: it returns
\* the array
EnumerateDays ==
    /\ epc = "call"
    /\ enumDates' = enumerateDaysBetweenDates(enumStart, enumEnd, enumZone)
    /\ epc' = "returned"
    /\ UNCHANGED <<besideEnum, enumZone, enumStart, enumEnd>>

NextEnum == EnumerateDays

SpecEnum == InitEnum /\ [][NextEnum]_vars

(***************************************************************************)
(* Properties of enumerateDaysBetweenDates                                 *)
(***************************************************************************)
\* the calendar days strictly between the day of startDate and the day of
\* endDate, in the machine's zone
DaysBetween ==
    {d \in 0..(MaxDay + 2) :
        DayOf(enumStart, enumZone) < d /\ d < DayOf(enumEnd, enumZone)}

\* C14: for valid dates the array holds, in strictly ascending order, the
\* start (local midnight) of every calendar day strictly after the day of
\* startDate and strictly before the day of endDate, and nothing else; it is
\* empty when the two are the same day or adjacent days.
C14_DaysStrictlyBetween ==
    (epc = "returned" /\ isValid(enumStart) /\ isValid(enumEnd)) =>
        /\ Len(enumDates) = Cardinality(DaysBetween)
        /\ \A i \in 1..Len(enumDates) :
              /\ DayOf(enumDates[i], enumZone) \in DaysBetween
              /\ enumDates[i] = Midnight(DayOf(enumDates[i], enumZone), enumZone)
        /\ \A i \in 2..Len(enumDates) : enumDates[i - 1] < enumDates[i]
        /\ DayOf(enumEnd, enumZone) - DayOf(enumStart, enumZone) \in {0, 1}
              => enumDates = <<>>

\* two days lie between startDate and endDate, neither given at midnight
C14_Witness ==
    /\ epc = "returned" /\ isValid(enumStart) /\ isValid(enumEnd)
    /\ Len(enumDates) = 2
    /\ enumStart # Midnight(DayOf(enumStart, enumZone), enumZone)
    /\ enumEnd # Midnight(DayOf(enumEnd, enumZone), enumZone)

\* C15: enumerateDaysBetweenDates throws when startDate or endDate does not
\* parse as a date; it returns no array, empty or not, for such an input.
C15_InvalidDateThrows ==
    (epc # "call" /\ (~isValid(enumStart) \/ ~isValid(enumEnd))) => epc = "thrown"

(***************************************************************************)
(* parseTenAMData.  The note file is a sequence of lines; nl tells whether *)
(* the line ends with "\n", which only the last line of a file may lack.   *)
(*   year  line: '2020'                      v is the year                 *)
(*   month line: 'January'                   v is the number of the month  *)
(*   day   line: 'JAN 5TH 2020 <weekday>'    v is the number of the month, *)
(*                                           weekday the text after the    *)
(*                                           year, as written              *)
(*   text  line: anything else, not blank    v tells the texts apart       *)
(***************************************************************************)
Line(kind, v, date, weekday, nl) ==
    [kind |-> kind, v |-> v, date |-> date, weekday |-> weekday, nl |-> nl]

\* the years, months, dates and weekday texts the note files of the model use
DumpYears == {2020, 2021}

DumpMonths == {1, 2}

DumpDates == {5, 6}

DumpWeekdays == {"WEDNESDAY", "(WEDNESDAY)", "(SUNDAY)"}

DumpTexts == {1, 2}

DumpLines(nl) ==
    {Line("year", y, 0, "", nl) : y \in DumpYears}
    \cup {Line("month", m, 0, "", nl) : m \in DumpMonths}
    \cup {Line("day", 1, d, w, nl) : d \in DumpDates, w \in DumpWeekdays}
    \cup {Line("text", t, 0, "", nl) : t \in DumpTexts}

\* text.split(new RegExp(`(${tokens.join('|')})\n`)): the pieces of text
\* between the matches, each match followed by its capture; the regex needs
\* the "\n" after the token
RECURSIVE splitByToken(_, _, _, _)
splitByToken(kind, tokens, text, piece) ==
    IF text = <<>> THEN <<[cap |-> FALSE, v |-> 0, text |-> piece]>>
    ELSE LET line == Head(text)
         IN  IF line.kind = kind /\ line.v \in Elements(tokens) /\ line.nl
             THEN <<[cap |-> FALSE, v |-> 0, text |-> piece],
                    [cap |-> TRUE, v |-> line.v, text |-> <<>>]>>
                  \o splitByToken(kind, tokens, Tail(text), <<>>)
             ELSE splitByToken(kind, tokens, Tail(text), Append(piece, line))

\* CONST.YEARS.includes(datum), _.contains(CONST.MONTHS, datum): a capture,
\* or a piece that is nothing but the token
isToken(kind, tokens, datum) ==
    \/ datum.cap
    \/ /\ Len(datum.text) = 1
       /\ datum.text[1].kind = kind
       /\ datum.text[1].v \in Elements(tokens)
       /\ ~datum.text[1].nl

tokenOf(datum) == IF datum.cap THEN datum.v ELSE datum.text[1].v

\* for (let year of CONST.YEARS) { if (_.has(acc, year)) {...; break;} }:
\* the first token, in the order of CONST, that acc has; 0 when it has none
firstHeld(order, has) ==
    IF \E i \in 1..Len(order) : order[i] \in has
    THEN order[CHOOSE i \in 1..Len(order) :
                  order[i] \in has /\ \A j \in 1..(i - 1) : order[j] \notin has]
    ELSE 0

\* the reduce callback of the split by year, the _.each callback of the
\* split by month
RECURSIVE reduceTokens(_, _, _, _)
reduceTokens(kind, order, acc, data) ==
    IF data = <<>> THEN acc
    ELSE LET datum == Head(data)
             held  == firstHeld(order, acc.has)
             next  == IF ~datum.cap /\ datum.text = <<>> THEN acc
                      ELSE IF isToken(kind, order, datum)
                      THEN [has  |-> acc.has \cup {tokenOf(datum)},
                            data |-> [acc.data EXCEPT ![tokenOf(datum)] = <<>>]]
                      ELSE IF held = 0 THEN acc
                      ELSE [acc EXCEPT !.data[held] = @ \o datum.text]
         IN  reduceTokens(kind, order, next, Tail(data))

\* const annualData = _.reduce(rawTenAMData.split(...), ..., {})
splitYears(raw) == reduceTokens("year", YEARS, NoAcc(YEARS), splitByToken("year", YEARS, raw, <<>>))

\* const monthlyData = _.reduce(annualData, ..., {})
splitMonths(annual) ==
    [y \in Elements(YEARS) |->
        IF y \in annual.has
        THEN reduceTokens("month", MONTHS, NoAcc(MONTHS),
                          splitByToken("month", MONTHS, annual.data[y], <<>>))
        ELSE NoAcc(MONTHS)]

\* the day heading the regex of the split by day matches:
\* (JAN|...) (\d+)(?:ST|ND|RD|TH) \d+ (?:MONDAY|...|FRIDAY)
isHeading(line) == line.kind = "day" /\ line.weekday \in WEEKDAYS

\* an element of the array of the split by day: a piece of text (lead tells
\* that it starts with the "\n" that ended a heading) or a capture, the
\* month ("mon") or the day of the month ("date") of a heading
TextElement(lead, lines) == [el |-> "text", v |-> 0, lead |-> lead, lines |-> lines]

Capture(el, v) == [el |-> el, v |-> v, lead |-> FALSE, lines |-> <<>>]

\* tenAMData.split(new RegExp(...)): piece, month, date, piece, month, date, ...
RECURSIVE splitDays(_, _)
splitDays(text, piece) ==
    IF text = <<>> THEN <<piece>>
    ELSE LET line == Head(text)
         IN  IF isHeading(line)
             THEN <<piece, Capture("mon", line.v), Capture("date", line.date)>>
                  \o splitDays(Tail(text), TextElement(line.nl, <<>>))
             ELSE splitDays(Tail(text), [piece EXCEPT !.lines = Append(@, line)])

\* _.compact: the empty strings go, the captures and the other pieces stay
compact(array) ==
    LET Truthy(e) == e.el # "text" \/ e.lead \/ e.lines # <<>>
    IN  SelectSeq(array, Truthy)

\* content.trim(): the text without the white space around it; of a capture,
\* the capture
trim(e) ==
    IF e.el = "text"
    THEN [i \in 1..Len(e.lines) |->
             IF i = Len(e.lines) THEN [e.lines[i] EXCEPT !.nl = FALSE] ELSE e.lines[i]]
    ELSE <<Line(e.el, e.v, 0, "", FALSE)>>

\* the key of no day: what format() gives when the pieces handed to moment
\* are not the month and the date of a heading
OtherKey == [year |-> 0, month |-> 0, date |-> 0]

\* moment(`${month3Digit} ${date} ${year}`, 'MMM DD YYYY').format('YYYY-MM-DD')
dateStandard(month3Digit, date, year) ==
    IF month3Digit.el = "mon" /\ date.el = "date"
    THEN [year |-> year, month |-> month3Digit.v, date |-> date.v]
    ELSE OtherKey

\* .chunk(3): the last chunk is shorter when the length is no multiple of 3;
\* its content is then undefined and content.trim() throws a TypeError
chunksThrow(array) == Len(array) % 3 # 0

\* .chunk(3).reduce((memo, chunk) => ({...memo, [dateStandard]: content.trim()}), {})
RECURSIVE reduceChunks(_, _, _)
reduceChunks(memo, array, year) ==
    IF Len(array) < 3 THEN memo
    ELSE LET key == dateStandard(array[1], array[2], year)
         IN  reduceChunks({e \in memo : e.key # key}
                              \cup {[key |-> key, content |-> trim(array[3])]},
                          SubSeq(array, 4, Len(array)), year)

\* the elements of the month's text after split and compact
dayElements(text) == compact(splitDays(text, TextElement(FALSE, <<>>)))

\* the months of the years of monthlyData
MonthsOf(monthly, annual) ==
    {ym \in annual.has \X Elements(MONTHS) : ym[2] \in monthly[ym[1]].has}

\* return _.mapObject(monthlyData, ...) throws
splitDaysThrows(monthly, annual) ==
    \E ym \in MonthsOf(monthly, annual) :
        chunksThrow(dayElements(monthly[ym[1]].data[ym[2]]))

\* return _.mapObject(monthlyData, ...): the entries of every month
splitAllDays(monthly, annual) ==
    UNION {{[year |-> ym[1], month |-> ym[2], key |-> e.key, content |-> e.content] :
               e \in reduceChunks({}, dayElements(monthly[ym[1]].data[ym[2]]), ym[1])} :
           ym \in MonthsOf(monthly, annual)}

InitNotes ==
    /\ IdleExcept("notes")
    /\ rawTenAMData = <<>>
    /\ annualData = NoAcc(YEARS)
    /\ monthlyData = [y \in Elements(YEARS) |-> NoAcc(MONTHS)]
    /\ tenAMData = {}
    /\ ppc = "read"

\* the file has one more line; a line without "\n" is the last one
FileLine(line) ==
    /\ ppc = "read"
    /\ Len(rawTenAMData) < MaxLines
    /\ IF rawTenAMData = <<>> THEN TRUE ELSE rawTenAMData[Len(rawTenAMData)].nl
    /\ rawTenAMData' = Append(rawTenAMData, line)
    /\ UNCHANGED <<besideNotes, annualData, monthlyData, tenAMData, ppc>>

\* readFileSync(filepath).toString(), then the split by year
SplitByYear ==
    /\ ppc = "read"
    /\ annualData' = splitYears(rawTenAMData)
    /\ ppc' = "years"
    /\ UNCHANGED <<besideNotes, rawTenAMData, monthlyData, tenAMData>>

\* the split by month
SplitByMonth ==
    /\ ppc = "years"
    /\ monthlyData' = splitMonths(annualData)
    /\ ppc' = "months"
    /\ UNCHANGED <<besideNotes, rawTenAMData, annualData, tenAMData>>

\* the split by day: parseTenAMData returns, or throws the TypeError
SplitByDay ==
    /\ ppc = "months"
    /\ IF splitDaysThrows(monthlyData, annualData)
       THEN /\ ppc' = "thrown"
            /\ tenAMData' = tenAMData
       ELSE /\ ppc' = "parsed"
            /\ tenAMData' = splitAllDays(monthlyData, annualData)
    /\ UNCHANGED <<besideNotes, rawTenAMData, annualData, monthlyData>>

NextNotes ==
    \/ \E nl \in BOOLEAN : \E line \in DumpLines(nl) : FileLine(line)
    \/ SplitByYear
    \/ SplitByMonth
    \/ SplitByDay

SpecNotes == InitNotes /\ [][NextNotes]_vars

(***************************************************************************)
(* Properties of parseTenAMData                                            *)
(***************************************************************************)
\* line i of a text is the token of a kind, followed by its "\n"
TokenAt(text, i, kind) == text[i].kind = kind /\ text[i].nl

\* the lines after token i of a text, up to the next token of the kind
SegmentAfter(text, i, kind) ==
    LET later == {j \in (i + 1)..Len(text) : TokenAt(text, j, kind)}
        stop  == IF later = {} THEN Len(text) + 1
                 ELSE CHOOSE j \in later : \A k \in later : j <= k
    IN  SubSeq(text, i + 1, stop - 1)

\* every line of a text ends with "\n" and no token of the kind comes twice
EachTokenOnce(text, kind) ==
    /\ \A i \in 1..Len(text) : text[i].nl
    /\ \A i, j \in 1..Len(text) :
          (TokenAt(text, i, kind) /\ TokenAt(text, j, kind) /\ text[i].v = text[j].v)
              => i = j

\* C16: the text after a year line, up to the next year line, is the text of
\* that year, and within a year the text after a month line, up to the next
\* month line, is the text of that month, in whatever order the years and
\* the months come in the file (each of them once).
C16_TextGoesToPrecedingToken ==
    /\ (ppc \in {"years", "months", "parsed", "thrown"}
           /\ EachTokenOnce(rawTenAMData, "year"))
        => \A i \in 1..Len(rawTenAMData) :
              TokenAt(rawTenAMData, i, "year")
                 => /\ rawTenAMData[i].v \in annualData.has
                    /\ annualData.data[rawTenAMData[i].v]
                          = SegmentAfter(rawTenAMData, i, "year")
    /\ ppc \in {"months", "parsed", "thrown"}
        => \A y \in annualData.has :
              EachTokenOnce(annualData.data[y], "month")
                 => \A i \in 1..Len(annualData.data[y]) :
                       TokenAt(annualData.data[y], i, "month")
                          => /\ annualData.data[y][i].v \in monthlyData[y].has
                             /\ monthlyData[y].data[annualData.data[y][i].v]
                                   = SegmentAfter(annualData.data[y], i, "month")

\* the lines after heading i of a month's text, up to the next heading,
\* without the white space around them
ContentAfter(text, i) ==
    LET later == {j \in (i + 1)..Len(text) : isHeading(text[j])}
        stop  == IF later = {} THEN Len(text) + 1
                 ELSE CHOOSE j \in later : \A k \in later : j <= k
    IN  trim(TextElement(FALSE, SubSeq(text, i + 1, stop - 1)))

\* the text of every month starts with a day heading
MonthsStartWithHeading ==
    \A ym \in MonthsOf(monthlyData, annualData) :
        LET text == monthlyData[ym[1]].data[ym[2]]
        IN  text # <<>> => isHeading(text[1])

\* C17: when the text of every month starts with a day heading, every day
\* heading of a month has an entry in that month under its own date key; the
\* entry holds the text between the heading and the next one (when no other
\* heading of the month has the same date), the empty string when there is
\* none.
C17_EveryHeadingHasItsEntry ==
    (ppc \in {"parsed", "thrown"} /\ MonthsStartWithHeading) =>
        \A ym \in MonthsOf(monthlyData, annualData) :
            LET text == monthlyData[ym[1]].data[ym[2]]
            IN  \A i \in 1..Len(text) :
                    isHeading(text[i]) =>
                        \E e \in tenAMData :
                            /\ e.year = ym[1] /\ e.month = ym[2]
                            /\ e.key = [year |-> ym[1], month |-> text[i].v,
                                        date |-> text[i].date]
                            /\ (\A j \in 1..Len(text) :
                                    (isHeading(text[j]) /\ text[j].date = text[i].date
                                        /\ text[j].v = text[i].v) => j = i)
                                => e.content = ContentAfter(text, i)

\* the file is made of year lines, each followed by month lines, each
\* followed by day lines 'JAN 5TH 2020 <weekday>' that are each followed by
\* one line of text
DumpOfTheForm ==
    /\ rawTenAMData # <<>>
    /\ rawTenAMData[1].kind = "year"
    /\ rawTenAMData[Len(rawTenAMData)].kind = "text"
    /\ \A i \in 1..(Len(rawTenAMData) - 1) :
          LET kind == rawTenAMData[i].kind
              next == rawTenAMData[i + 1].kind
          IN  /\ kind = "year" => next = "month"
              /\ kind = "month" => next = "day"
              /\ kind = "day" => next = "text"

\* the last line of a kind before line i
LastBefore(i, kind) ==
    LET before == {j \in 1..(i - 1) : rawTenAMData[j].kind = kind}
    IN  rawTenAMData[CHOOSE j \in before : \A k \in before : k <= j]

\* C18: for a file of that form, whatever the weekday text of the day lines
\* ('(SUNDAY)', '(WEDNESDAY)', ...), parseTenAMData returns, and returns for
\* every day line one entry under the year and the month above it, with the
\* date key of the line and the text that follows it, and no other entry.
C18_OneEntryPerDayHeader ==
    (ppc \in {"parsed", "thrown"} /\ DumpOfTheForm) =>
        /\ ppc = "parsed"
        /\ \A i \in 1..Len(rawTenAMData) :
              rawTenAMData[i].kind = "day" =>
                 \E e \in tenAMData :
                     /\ e.year = LastBefore(i, "year").v
                     /\ e.month = LastBefore(i, "month").v
                     /\ e.key = [year |-> e.year, month |-> rawTenAMData[i].v,
                                 date |-> rawTenAMData[i].date]
                     /\ e.content = <<[rawTenAMData[i + 1] EXCEPT !.nl = FALSE]>>
        /\ Cardinality(tenAMData)
              <= Cardinality({i \in 1..Len(rawTenAMData) : rawTenAMData[i].kind = "day"})

(***************************************************************************)
(* throttledPromiseAll on bounded inputs: any promises, which are running  *)
(* when the function is called and settle in any order                     *)
(***************************************************************************)
ResultValues == 1..MaxResult

\* the default, and the initial value of searchThrottle
Throttlings == {0, 500}

Pending == [st |-> "pending", value |-> 0]

InitCall ==
    /\ IdleExcept("call")
    /\ \E n \in 0..MaxPromises : promises = [k \in 1..n |-> Pending]
    /\ settled = <<>>
    /\ \E d \in Throttlings : call = throttledPromiseAll(Len(promises), d)

\* a promise of the array resolves with a value
PromiseResolves(k, value) ==
    /\ promises[k].st = "pending"
    /\ promises' = [promises EXCEPT ![k] = [st |-> "resolved", value |-> value]]
    /\ settled' = Append(settled, k)
    /\ UNCHANGED <<besideCall, call>>

\* a promise of the array rejects
PromiseRejects(k) ==
    /\ promises[k].st = "pending"
    /\ promises' = [promises EXCEPT ![k] = [st |-> "rejected", value |-> 0]]
    /\ settled' = Append(settled, k)
    /\ UNCHANGED <<besideCall, call>>

\* results.push(await promise); then the timer is armed
AwaitReturns ==
    /\ call.phase = "await"
    /\ promises[call.i].st = "resolved"
    /\ call' = awaitResolved(call, promises[call.i].value)
    /\ UNCHANGED <<besideCall, promises, settled>>

\* await promise throws: the async function rejects
AwaitThrows ==
    /\ call.phase = "await"
    /\ promises[call.i].st = "rejected"
    /\ call' = [call EXCEPT !.phase = "rejected"]
    /\ UNCHANGED <<besideCall, promises, settled>>

\* the timer fires
TimerFires ==
    /\ call.phase = "delay"
    /\ call' = timerFired(call, Len(promises))
    /\ UNCHANGED <<besideCall, promises, settled>>

NextCall ==
    \/ \E k \in 1..Len(promises), value \in ResultValues : PromiseResolves(k, value)
    \/ \E k \in 1..Len(promises) : PromiseRejects(k)
    \/ AwaitReturns
    \/ AwaitThrows
    \/ TimerFires

SpecCall == InitCall /\ [][NextCall]_vars

(***************************************************************************)
(* Properties of throttledPromiseAll                                       *)
(***************************************************************************)
\* C20: when throttledPromiseAll resolves, every promise of the array has
\* resolved and the results are as many as the promises, result i being the
\* value promise i resolved with, in whatever order the promises settled;
\* at any moment the results are the values of the first promises, in the
\* order of the array.
C20_ResultsInInputOrder ==
    /\ call.phase = "resolved" =>
          /\ Len(call.results) = Len(promises)
          /\ \A k \in 1..Len(promises) : promises[k].st = "resolved"
    /\ call.phase # "none" =>
          /\ Len(call.results) <= Len(promises)
          /\ \A k \in 1..Len(call.results) :
                /\ promises[k].st = "resolved"
                /\ call.results[k] = promises[k].value

\* the call has resolved although the last promise settled first, with a
\* value that is not that of the first
C20_Witness ==
    /\ call.phase = "resolved"
    /\ Len(promises) >= 2
    /\ settled[1] = Len(promises)
    /\ promises[1].value # promises[Len(promises)].value

(***************************************************************************)
(* run() in note-file mode, from the value parseTenAMData returned to      *)
(* writeFileSync.  An object of years of months of days is kept as the     *)
(* month keys of each year in insertion order (months) and its day         *)
(* entries (days): year and month name the month object that holds the     *)
(* entry, key is its 'YYYY-MM-DD' key, value tells a note from a DayBucket.*)
(***************************************************************************)
\* moment(`${currentMonth} ${currentYear}`, 'MMMM YYYY').daysInMonth()
daysInMonth(month, year) ==
    IF month = 2
    THEN (IF year % 4 = 0 /\ (year % 100 # 0 \/ year % 400 = 0) THEN 29 ELSE 28)
    ELSE IF month \in {4, 6, 9, 11} THEN 30 ELSE 31

\* moment(date).day() of the first day of a month, 0 is Sunday: the days
\* since 1 January 2019, a Tuesday, tell it
RECURSIVE firstDay(_, _)
firstDay(month, year) ==
    IF year = 2019 /\ month = 1 THEN 2
    ELSE IF month = 1 THEN (firstDay(12, year - 1) + 31) % 7
    ELSE (firstDay(month - 1, year) + daysInMonth(month - 1, year)) % 7

\* moment(date).format('YYYY-MM-DD') of a day counted from the first of a
\* month; a day before the first or after the last is of the month next to it
keyOf(year, month, date) ==
    IF date < 1
    THEN (IF month = 1
          THEN [year |-> year - 1, month |-> 12, date |-> 31 + date]
          ELSE [year |-> year, month |-> month - 1,
                date |-> daysInMonth(month - 1, year) + date])
    ELSE IF date > daysInMonth(month, year)
    THEN (IF month = 12
          THEN [year |-> year + 1, month |-> 1, date |-> date - 31]
          ELSE [year |-> year, month |-> month + 1,
                date |-> date - daysInMonth(month, year)])
    ELSE [year |-> year, month |-> month, date |-> date]

\* a < b for two 'YYYY-MM-DD' strings, as Array.prototype.sort compares them
keyBefore(a, b) ==
    \/ a.year < b.year
    \/ a.year = b.year /\ a.month < b.month
    \/ a.year = b.year /\ a.month = b.month /\ a.date < b.date

\* the entries of the month object data[year][month]
monthObject(data, year, month) == {e \in data.days : e.year = year /\ e.month = month}

\* CONST.MONTHS.slice(indexOf(earliestMonth), indexOf(latestMonth) + 1).reverse()
\* for the month keys of a year: nothing when the year has no month
monthsToFetch(months) ==
    IF months = <<>> THEN <<>>
    ELSE LET earliestMonth == CHOOSE m \in Elements(months) : \A n \in Elements(months) : m <= n
             latestMonth   == CHOOSE m \in Elements(months) : \A n \in Elements(months) : m >= n
         IN  [i \in 1..(latestMonth - earliestMonth + 1) |-> latestMonth - i + 1]

\* const dateRanges = _.chain(...)...value() for monthTenAMs =
\* tenAMData[currentYear][currentMonth]: _.keys(undefined) is []
dateRangesOf(data, year, month) ==
    LET keys == {e.key : e \in monthObject(data, year, month)}
        days == {k.date : k \in {j \in keys : j.year = year /\ j.month = month}}
        runs == reduceRanges(<<>>, missingDays(1, daysInMonth(month, year),
                                               firstDay(month, year), days))
    IN  [i \in 1..Len(runs) |->
            [year |-> year, month |-> month,
             first |-> runs[i][1], last |-> runs[i][Len(runs[i])]]]

\* the three loops of run(): the years from latestYear down to earliestYear,
\* the months of monthsToFetch, the date ranges of the month.  The month keys
\* and the notes of a month do not change while the loops run, so the ranges
\* a loop computes when it gets to a month are those computed here
RECURSIVE rangesFrom(_, _, _, _)
rangesFrom(data, currentYear, months, earliestYear) ==
    IF months # <<>>
    THEN dateRangesOf(data, currentYear, Head(months))
         \o rangesFrom(data, currentYear, Tail(months), earliestYear)
    ELSE IF currentYear > earliestYear
    THEN rangesFrom(data, currentYear - 1,
                    monthsToFetch(data.months[currentYear - 1]), earliestYear)
    ELSE <<>>

\* earliestYear and latestYear of _.keys(tenAMData).sort(), and the loops
loops(data) ==
    LET years == {y \in Elements(YEARS) : data.months[y] # <<>>}
    IN  IF years = {} THEN <<>>
        ELSE LET earliestYear == CHOOSE y \in years : \A z \in years : y <= z
                 latestYear   == CHOOSE y \in years : \A z \in years : y >= z
             IN  rangesFrom(data, latestYear, monthsToFetch(data.months[latestYear]),
                            earliestYear)

\* await getGitHubData(username, startDate, endDate, twoWeeksBefore) for a
\* date range: one DayBucket for each key of the aggregation
gitHubDataForRange(range, zone, machine) ==
    LET keys == bucketKeys(adjustDateAndTimezoneForGitHub(zone, range.first, range.last),
                           machine)
    IN  {[year |-> range.year, month |-> range.month,
          key |-> keyOf(range.year, range.month, keys[i]), value |-> "gh"] :
            i \in 1..Len(keys)}

\* lodashMerge(mergedData[currentYear][currentMonth], gitHubDataForRange):
\* merge works on Object(object), so the result is a new object, which run()
\* drops, when the month is no key of the year; else each DayBucket is put
\* under its key, in the place of a note that has that key
lodashMerge(data, year, month, source) ==
    IF month \notin Elements(data.months[year]) THEN data
    ELSE [data EXCEPT !.days =
            {e \in @ : ~(\E g \in source : g.year = e.year /\ g.month = e.month
                                             /\ g.key = e.key)}
            \cup source]

\* _.reduce(_.keys(mergedData[year][month]).sort(), ...): the entries of a
\* month object by ascending key
RECURSIVE sortedDailyData(_)
sortedDailyData(object) ==
    IF object = {} THEN <<>>
    ELSE LET first == CHOOSE e \in object :
                          \A f \in object : f = e \/ keyBefore(e.key, f.key)
         IN  <<first>> \o sortedDailyData(object \ {first})

\* the day entries that add to output: formatGHDataForOutput returns ''
\* for a DayBucket without activity
RECURSIVE render(_, _, _, _)
render(data, year, months, active) ==
    LET Emits(e) == e.value = "note" \/ active
    IN  IF months # <<>>
        THEN SelectSeq(sortedDailyData(monthObject(data, year, Head(months))), Emits)
             \o render(data, year, Tail(months), active)
        ELSE IF year < YEARS[Len(YEARS)]
        THEN render(data, year + 1, data.months[year + 1], active)
        ELSE <<>>

\* the months that have notes, and the days of a month that have one
NotedMonths == 1..MaxMonth

MonthOrders ==
    {q \in UNION {[1..n -> NotedMonths] : n \in 0..MaxNotedMonths} :
        \A i, j \in 1..Len(q) : i # j => q[i] # q[j]}

\* parseTenAMData has returned: the months of a year are keys in the order
\* in which the file names them (acc[year][datum] = ''), each with its notes
InitMerge ==
    /\ IdleExcept("merge")
    /\ \E order \in [DumpYears -> MonthOrders] :
       \E notes \in [DumpYears \X NotedMonths -> SUBSET DumpDates] :
          /\ Len(order[2020]) + Len(order[2021]) <= MaxNotedMonths
          /\ \A ym \in DumpYears \X NotedMonths :
                ym[2] \notin Elements(order[ym[1]]) => notes[ym] = {}
          /\ parsed = [months |-> [y \in Elements(YEARS) |->
                                     IF y \in DumpYears THEN order[y] ELSE <<>>],
                       days   |-> {[year |-> n[1], month |-> n[2],
                                    key |-> keyOf(n[1], n[2], n[3]), value |-> "note"] :
                                      n \in {t \in DumpYears \X NotedMonths \X DumpDates :
                                                t[3] \in notes[<<t[1], t[2]>>]}}]
    /\ mergedData = parsed
    /\ plan = loops(parsed)
    /\ fetched = {}
    /\ activity \in BOOLEAN
    /\ runMachine \in Offsets
    /\ runZone \in Offsets
    /\ output = <<>>
    /\ mpc = "fetch"

\* the call of getGitHubData for the next date range resolves, and its
\* DayBuckets are merged
MergeRange ==
    /\ mpc = "fetch"
    /\ plan # <<>>
    /\ LET range == Head(plan)
           data  == gitHubDataForRange(range, runZone, runMachine)
       IN  /\ fetched' = fetched \cup data
           /\ mergedData' = lodashMerge(mergedData, range.year, range.month, data)
    /\ plan' = Tail(plan)
    /\ UNCHANGED <<besideMerge, parsed, activity, runMachine, runZone, output, mpc>>

\* the loops are done: _.each(mergedData, ...) goes through the years, which
\* an object lists in ascending order as its keys are integers, and through
\* the month keys of each in insertion order; then writeFileSync
RenderOutput ==
    /\ mpc = "fetch"
    /\ plan = <<>>
    /\ output' = render(mergedData, YEARS[1], mergedData.months[YEARS[1]], activity)
    /\ mpc' = "written"
    /\ UNCHANGED <<besideMerge, parsed, mergedData, plan, fetched, activity, runMachine,
                   runZone>>

NextMerge ==
    \/ MergeRange
    \/ RenderOutput

SpecMerge == InitMerge /\ [][NextMerge]_vars

(***************************************************************************)
(* Properties of the merge and of the rendering                            *)
(***************************************************************************)
\* C21: in note-file mode the day entries are added to the output in
\* ascending calendar-day order, across the years and months as well as
\* within a month, whatever the order of the months in the note file.
C21_OutputInDayOrder ==
    mpc = "written" =>
        \A i, j \in 1..Len(output) :
            i < j => ~keyBefore(output[j].key, output[i].key)

\* C25: when every range has been fetched and merged, every day of the note
\* file still has its note, and every DayBucket a call of getGitHubData
\* returned is in mergedData, also for a month without notes between the
\* earliest and the latest month of a year.
C25_MergeIsLossless ==
    (mpc # "off" /\ plan = <<>>) =>
        /\ \A e \in parsed.days : e \in mergedData.days
        /\ \A g \in fetched : g \in mergedData.days

(***************************************************************************)
(* Properties of the aggregation step                                      *)
(***************************************************************************)
KeySet == {fullDataSet.keys[i] : i \in 1..Len(fullDataSet.keys)}

\* the DayBuckets an entity of a kind has been pushed to
BucketsOf(kind, e) ==
    {k \in KeySet : \E i \in 1..Len(fullDataSet.data[k][kind]) :
                       fullDataSet.data[k][kind][i] = e}

\* C8: every entity is in at most one DayBucket; it is in one exactly when the
\* calendar day of its timestamp in argv.timezone lies in
\* [argvStartDate, argvEndDate], and that bucket is keyed by that day.
C8_OneBucketPerEntity ==
    bpc = "done" =>
        \A kind \in Kinds : \A i \in 1..Len(entities[kind]) :
            LET e   == entities[kind][i]
                day == DayOf(e.ts, timezone)
            IN  /\ Cardinality(BucketsOf(kind, e)) <= 1
                /\ (BucketsOf(kind, e) # {}) <=> (day \in argvStartDate..argvEndDate)
                /\ BucketsOf(kind, e) \subseteq {day}

\* C9: the DayBucket keys are exactly the calendar days from argvStartDate
\* through argvEndDate, one bucket per day.
C9_KeysAreTheRange ==
    bpc = "done" =>
        /\ KeySet = argvStartDate..argvEndDate
        /\ Len(fullDataSet.keys) = argvEndDate - argvStartDate + 1

(***************************************************************************)
(* Properties of a run                                                     *)
(***************************************************************************)
\* the request failed with an unexpected error or beyond the retry ceiling
Fatal(r) == req[r].st = "failed" /\ req[r].cause \in {"error", "rate"}

\* the request was dropped by onAbuseLimit
Abandoned(r) == req[r].st = "failed" /\ req[r].cause = "abuse"

\* this step is a retry granted by onRateLimit to request r
RateRetryStep(r) ==
    /\ req[r].st = "pending" /\ req'[r].st = "pending"
    /\ req'[r].retryCount = req[r].retryCount + 1
    /\ req'[r].abuseRetries = req[r].abuseRetries

\* this step is a retry granted by onAbuseLimit to request r
AbuseRetryStep(r) ==
    /\ req[r].st = "pending" /\ req'[r].st = "pending"
    /\ req'[r].abuseRetries = req[r].abuseRetries + 1

\* this step is onAbuseLimit refusing to retry request r
AbuseDropStep(r) == req[r].st = "pending" /\ Abandoned(r)'

\* this step arms the timer of throttledPromiseAll
ArmTimerStep == tpa.phase = "await" /\ tpa'.phase = "delay"

\* this step calls getGitHubData
CallStep == tpa.phase \in {"none", "resolved"} /\ tpa'.phase = "await"

\* C1: once a request has failed with an unexpected error or has exceeded the
\* rate-limit retry ceiling, the output file has not been written and the
\* process does not end with status 0.
C1_NoOutputOnFatalError ==
    (\E r \in ReqIds : Fatal(r)) => (outputFile = "none" /\ exitCode # 0)

\* C2: search query i+1 is not started before query i has completed and the
\* loop of throttledPromiseAll has moved past it; at most one of the four
\* queries is outstanding.
C2_OneQueryAtATime ==
    /\ \A i \in 2..4 :
         req[Query(i)].st # "idle" =>
            (req[Query(i - 1)].st \in {"ok", "failed"} /\ tpa.i >= i)
    /\ Cardinality({q \in QueryReqs : req[q].st = "pending"}) <= 1

\* C3 (as claimed): every timer armed by throttledPromiseAll uses the value
\* searchThrottle has at that moment, also in a sequence that is in progress.
C3_TimerUsesCurrentThrottle ==
    [][ArmTimerStep => tpa'.timer = searchThrottle]_vars

\* C3 (amended): a call of getGitHubData passes the value searchThrottle has at
\* the call, and every timer of that sequence is armed with the value passed,
\* whatever searchThrottle has become since.
C3_TimerUsesThrottleAtCall ==
    [][/\ CallStep => tpa'.additionalThrottling = searchThrottle
       /\ ArmTimerStep => /\ tpa'.timer = tpa.additionalThrottling
                          /\ tpa'.additionalThrottling = tpa.additionalThrottling]_vars

\* a later sequence waits with a delay changed by an earlier signal
C3_Witness ==
    /\ stage = "queries" /\ tpa.phase = "delay"
    /\ tpa.timer # 500 /\ tpa.timer = searchThrottle

\* C4: no request is retried more than 5 times: a rate-limit signal that
\* arrives when retryCount is already 5 is not retried.
C4_AtMostFiveRetries == \A r \in ReqIds : req[r].retryCount <= 5

\* C5: every retry granted by onRateLimit leaves searchThrottle greater than
\* it was, and searchThrottle never decreases.
C5_DelayIncreases ==
    [][/\ \A r \in ReqIds : RateRetryStep(r) => searchThrottle' > searchThrottle
       /\ searchThrottle' >= searchThrottle]_vars

C7_RunContinuesAfterAbandon ==
    ((\E r \in DataReqs : Abandoned(r)) /\ (\A r \in ReqIds : ~Fatal(r)))
        => exitCode # 1

\* C7 (amended): once a request has been abandoned by onAbuseLimit no request
\* is started and the output file is not written any more; when the request
\* belongs to getGitHubData, the call never resolves and the process never
\* ends with status 0.
C7_AbandonIsFatal ==
    /\ []((\E r \in DataReqs : Abandoned(r)) => (exitCode # 0 /\ stage # "resolved"))
    /\ [][(\E r \in ReqIds : Abandoned(r)) =>
            /\ outputFile' = outputFile
            /\ \A r \in ReqIds : req'[r].st = "pending" => req[r].st = "pending"]_vars

\* the catch of getGitHubData has ended the process after an abandoned request
C7_Witness ==
    /\ \E r \in DataReqs : Abandoned(r)
    /\ \A r \in ReqIds : ~Fatal(r)
    /\ exitCode = 1

\* C10: when throttledPromiseAll has rejected, the call yields no results and
\* none of the operations after the failing one is still running.
C10_RestAbandonedOnFailure ==
    tpa.phase = "rejected" =>
        /\ stage = "rejected"
        /\ \A j \in (tpa.i + 1)..4 : req[Query(j)].st # "pending"

\* a timeline has brought a review of the user whose URL, fragment stripped,
\* is the html_url of none of the reviewedPRs
UnmatchedReview ==
    \E k \in 1..MaxItems :
        events[k] # 0 /\ \A pr \in reviewedPRs : pr.html_url # events[k]

\* the user's reviews the timelines have brought
ReviewCount == Cardinality({k \in 1..MaxItems : events[k] # 0})

\* C11: a review of the user whose parent pull request is not among the
\* reviewedPRs makes the chain of getGitHubData reject and the catch end the
\* process with status 1: the call never gets past the timelines, the process
\* never ends with status 0; no review is dropped, and every review that
\* gets past the mapping carries the title of the pull request with its URL.
C11_UnmatchedReviewIsFatal ==
    /\ [](UnmatchedReview => /\ stage \in {"timelines", "rejected"}
                              /\ reviews = <<>>
                              /\ exitCode # 0)
    /\ [](stage \in {"prs", "resolved"} => Len(reviews) = ReviewCount)
    /\ [](\A i \in 1..Len(reviews) :
            \E pr \in reviewedPRs : /\ pr.html_url = reviews[i].html_url
                                     /\ pr.title = reviews[i].prTitle)
    /\ [][/\ (UnmatchedReview /\ StageResolved("timelines")) => stage' = "rejected"
          /\ (UnmatchedReview /\ stage = "rejected") => exitCode' = 1]_vars

\* the process has ended with status 1 after a review without parent
C11_Witness == UnmatchedReview /\ exitCode = 1

\* the command line fails a validation
InvalidArgv ==
    \/ ~argv.datesValid        \* a date that is not a date
    \/ argv.startAfterEnd      \* startDate after endDate
    \/ ~argv.timezoneValid     \* a time zone moment does not know
    \/ argv.flagsConflict      \* --date or a range together with --tenAM, ...
    \/ ~argv.tenAMExists       \* the note file does not exist

\* C19: when the command line fails a validation (a malformed date,
\* startDate after endDate, an invalid time zone, conflicting options, a
\* missing note file) the first step of the process ends it with status 1:
\* no request is ever sent and the output file is never written.
C19_InvalidInputExitsFirst ==
    /\ [](InvalidArgv => /\ \A r \in ReqIds : req[r].st = "idle"
                          /\ outputFile = "none"
                          /\ exitCode \in {-1, 1}
                          /\ pc = "parseArgs")
    /\ [][(InvalidArgv /\ Running) => exitCode' = 1]_vars

\* the process has ended with status 1 on a time zone that is not valid,
\* all else being valid
C19_Witness ==
    /\ argv = [ValidArgv EXCEPT !.timezoneValid = FALSE]
    /\ exitCode = 1

\* the request has been dispatched in the current call of getGitHubData
Dispatched(r) == req[r].st # "idle"

\* every request of the set that was dispatched has completed
Completed(rs) == \A r \in rs : req[r].st \in {"idle", "ok"}

C23_OutputAfterData ==
    (mode = "date" /\ outputFile # "none")
        => stage \notin {"queries", "comments", "timelines", "prs"}

\* the request has reached Success or Failed
Settled(r) == req[r].st \in {"ok", "failed"}

\* C24 (as claimed): every request that has been sent eventually reaches
\* Success or Failed.
C24_EveryRequestSettles ==
    \A r \in ReqIds : (req[r].st = "pending") ~> Settled(r)

\* C24 (amended): the two handlers share one retry counter per request, which
\* never gets past 6, with at most one retry granted by onAbuseLimit; a
\* request that has been sent reaches Success or Failed unless the process
\* ends first.
C24_RetriesAreBounded ==
    /\ [](\A r \in ReqIds : req[r].retryCount <= 6 /\ req[r].abuseRetries <= 1)
    /\ \A r \in ReqIds : (req[r].st = "pending") ~> (Settled(r) \/ ~Running)

\* a request has failed at the rate-limit signal that followed its last retry
C24_Witness ==
    \E r \in ReqIds : req[r].st = "failed" /\ req[r].cause = "rate"

\* C26: in note-file mode the date ranges are fetched one at a time: a call
\* of getGitHubData for a range is made only when the call for the range
\* before it has resolved with its DayBuckets and none of its requests is
\* outstanding, and the output file is written only when every range has
\* been fetched and merged.
C26_OneRangeAtATime ==
    /\ [][rangesLeft' # rangesLeft =>
            /\ stage \in {"none", "resolved"}
            /\ \A r \in DataReqs : req[r].st # "pending"
            /\ outputFile = "none"]_vars
    /\ []((mode = "tenAM" /\ outputFile # "none") =>
            /\ rangesLeft = 0
            /\ stage = "none"
            /\ \A r \in DataReqs : req[r].st # "pending")

\* the file has been written after the last range was fetched and merged,
\* and the process has ended
C26_Witness ==
    /\ mode = "tenAM"
    /\ tpa.phase = "resolved"
    /\ outputFile = "full"
    /\ exitCode = 0

TypeOK ==
    /\ mode \in {"date", "tenAM"}
    /\ pc \in {"parseArgs", "getUsername", "awaitData", "returned"}
    /\ stage \in {"none", "queries", "comments", "timelines", "prs", "resolved", "rejected"}
    /\ exitCode \in {-1, 0, 1}
    /\ outputFile \in {"none", "empty", "full"}
====
